---- MODULE Spec2Model ----
(***************************************************************************)
(* Monk Bot (src/bot.py): the divergence engine and its two threads.       *)
(*                                                                         *)
(* Units.  Time is counted in minutes.  Percentages (returns, gaps,        *)
(* thresholds) are integers counting decimal units of 1/PctUnit percent:   *)
(* a Decimal is any integer, a binary float is a multiple of FloatUlp, and *)
(* float(x) rounds x to the nearest float (ties to the even one).          *)
(***************************************************************************)
EXTENDS Integers, Sequences, FiniteSets, TLC

\* ------------------------------------------------------------------ bounds
\* decimal units between two neighbouring floats
FloatUlp == 4
\* longest history drawn as an input of the history functions
MaxHistLen == 3
\* last minute of the sequential sampling runs
MaxMinute == 92
\* last clock value (minutes) of the two-thread runs
MaxClock == 120
\* number of updates the listener receives in a two-thread run
MaxUpdates == 2
\* number of /threshold updates in the runs of the state machine alone
MaxThresholdUpdates == 2

\* --------------------------------------------------------------- constants
MinutesPerHour == 60
HISTORY_BUFFER_MINUTES == 30
LOOKBACK_TOLERANCE_MINUTES == 30
DEFAULT_LOOKBACK_HOURS == 1
MAX_THRESHOLD_PERCENT == 20
MIN_LOOKBACK_HOURS == 1
MAX_LOOKBACK_HOURS == 24
MIN_SCAN_INTERVAL_SECONDS == 60
MAX_SCAN_INTERVAL_SECONDS == 3600
BACKOFF_SECONDS == 60
FRESHNESS_THRESHOLD_MINUTES == 10
SCAN_INTERVAL_SECONDS == 300

\* decimal units in one percent
PctUnit == 2 * FloatUlp
ENTRY_THRESHOLD == 2 * PctUnit
EXIT_THRESHOLD == PctUnit \div 2
INVALIDATION_THRESHOLD == 4 * PctUnit

Abs(x) == IF x < 0 THEN -x ELSE x

\* float("nan"): the float for which every comparison is False
NaN == -(MAX_THRESHOLD_PERCENT * PctUnit * PctUnit)
FloatLE(a, b) == a # NaN /\ b # NaN /\ a <= b
FloatGT(a, b) == a # NaN /\ b # NaN /\ a > b

\* Optional[T]: <<>> is None, <<v>> is a value
None == <<>>
Some(v) == <<v>>

PricePoint(t, b, e) == [timestamp |-> t, btc |-> b, eth |-> e]

\* ----------------------------------------------------------- pure functions

\* nearest multiple of FloatUlp, ties to the even multiple
float(x) ==
    LET lo == (x \div FloatUlp) * FloatUlp
        r  == x - lo
    IN  IF 2 * r < FloatUlp THEN lo
        ELSE IF 2 * r > FloatUlp THEN lo + FloatUlp
        ELSE IF (lo \div FloatUlp) % 2 = 0 THEN lo ELSE lo + FloatUlp

\* Decimal quotient a / b rounded to a whole unit, ties to even (b # 0)
DecimalDiv(a, b) ==
    LET n == IF b < 0 THEN -a ELSE a
        d == Abs(b)
        q == n \div d
        r == n - q * d
    IN  IF 2 * r < d THEN q
        ELSE IF 2 * r > d THEN q + 1
        ELSE IF q % 2 = 0 THEN q ELSE q + 1

\* (now - prev) / prev * Decimal("100"), in units of 1/PctUnit percent
PctChange(cur, prev) == DecimalDiv((cur - prev) * 100 * PctUnit, prev)

ReturnsGapSwapped(btc_now, eth_now, btc_prev, eth_prev) ==
    LET btc_change == PctChange(btc_now, btc_prev)
        eth_change == PctChange(eth_now, eth_prev)
    IN  [btc_ret |-> btc_change, eth_ret |-> eth_change,
         gap |-> btc_change - eth_change]

compute_returns(btc_now, eth_now, btc_prev, eth_prev) ==
    LET btc_change == PctChange(btc_now, btc_prev)
        eth_change == PctChange(eth_now, eth_prev)
    IN  [btc_ret |-> btc_change, eth_ret |-> eth_change,
         gap |-> eth_change - btc_change]

\* cutoff = now - timedelta(hours=lookback, minutes=HISTORY_BUFFER_MINUTES)
PruneCutoff(t, lookback) ==
    t - (lookback * MinutesPerHour + HISTORY_BUFFER_MINUTES)

KeepPointStrict(p, cutoff) == p.timestamp > cutoff

\* the filter of the list comprehension in prune_history
KeepPoint(p, cutoff) == p.timestamp >= cutoff

PruneFilter(hist, cutoff) == SelectSeq(hist, LAMBDA p : KeepPoint(p, cutoff))

\* target_time = now - timedelta(hours=lookback)
TargetTime(t, lookback) == t - lookback * MinutesPerHour

CloserOrEqual(diff, best_diff) == diff <= best_diff

\* the test that replaces best_point in get_lookback_price
Closer(diff, best_diff) == diff < best_diff

RECURSIVE ScanBest(_, _, _, _, _)
ScanBest(hist, i, target_time, best_diff, best_point) ==
    IF i > Len(hist) THEN best_point
    ELSE LET point == hist[i]
             diff  == Abs(point.timestamp - target_time)
         IN  IF Closer(diff, best_diff)
             THEN ScanBest(hist, i + 1, target_time, diff, Some(point))
             ELSE ScanBest(hist, i + 1, target_time, best_diff, best_point)

LookbackScanBackwards(hist, target_time) ==
    ScanBest([i \in 1 .. Len(hist) |-> hist[Len(hist) + 1 - i]], 1,
             target_time, LOOKBACK_TOLERANCE_MINUTES, None)

\* the loop of get_lookback_price over one list object
LookbackScan(hist, target_time) ==
    ScanBest(hist, 1, target_time, LOOKBACK_TOLERANCE_MINUTES, None)

InsertFirst(hist, t, btc, eth) == <<PricePoint(t, btc, eth)>> \o hist

\* whole calls, as a single thread runs them
append_price(hist, t, btc, eth) == Append(hist, PricePoint(t, btc, eth))

prune_history(hist, t, lookback) == PruneFilter(hist, PruneCutoff(t, lookback))

get_lookback_price(hist, t, lookback) ==
    LookbackScan(hist, TargetTime(t, lookback))

\* ------------------------------------------------------------------- state
VARIABLES
    \* module globals of bot.py
    price_history,      \* the list the global price_history is bound to
    current_mode,       \* "SCAN" | "TRACK"
    active_strategy,    \* "None" | "S1" | "S2"
    settings,           \* the settings dict
    \* the sampling loop (main thread) and the locals of the calls it makes
    pc,
    now,
    price_data,         \* Optional[PriceData]
    held,               \* the list object a running call has loaded
    prune_cutoff,
    target_time,
    price_then,         \* Optional[PricePoint]
    rets,               \* (btc_ret, eth_ret, gap)
    gap_float,
    entry_thresh,
    exit_thresh,
    invalid_thresh,
    prev_mode,
    raises_left,        \* unexpected exceptions the run can still raise
    events,             \* alerts sent by the running evaluate_and_transition
    send_failed,        \* a send_alert of the running call returned False
    \* the command listener thread
    lpc,
    cmd,
    old_lookback,
    updates_left,
    status_reply,       \* the last /status reply, until the next update
    update,             \* the update process_commands last took from the feed
    reply,              \* what the last command answered: "ok" | "error" | "usage"
    command_thread_running,
    last_update_id,     \* the module global of get_telegram_updates
    offset,             \* the offset of the last getUpdates request
    updates,            \* the list process_commands iterates, what is left
    inbox,              \* updates Telegram holds for the bot, unconfirmed
    processed,          \* updates the for loop has taken, in that order
    \* the wall clock
    clock,
    \* history of the run, read by the properties only
    prune_input,        \* the list prune_history last filtered
    stored_before,      \* timestamps appended before the last /lookback wrote
    appended_since_clear,
    prev_strategy,      \* active_strategy when evaluate_and_transition was called
    cycle_clean         \* the listener was idle when this cycle began and since

globalVars == <<price_history, current_mode, active_strategy, settings>>
evalVars == <<gap_float, entry_thresh, exit_thresh, invalid_thresh, events,
              send_failed>>
loopVars == <<pc, now, price_data, held, prune_cutoff, target_time,
              price_then, rets, prev_mode, raises_left>>
listenerVars == <<lpc, cmd, old_lookback, updates_left, status_reply, update,
                  reply, command_thread_running, last_update_id, offset,
                  updates, inbox, processed>>
ghostVars == <<prune_input, stored_before, appended_since_clear,
               prev_strategy, cycle_clean>>
vars == <<globalVars, evalVars, loopVars, listenerVars, clock, ghostVars>>

\* the settings dict as bot.py builds it from config.py
DefaultSettings ==
    [scan_interval |-> SCAN_INTERVAL_SECONDS,
     entry_threshold |-> ENTRY_THRESHOLD,
     exit_threshold |-> EXIT_THRESHOLD,
     invalidation_threshold |-> INVALIDATION_THRESHOLD,
     lookback_hours |-> DEFAULT_LOOKBACK_HOURS]

NoCmd == [name |-> "none", arg |-> 0, kind |-> "none"]
NoRets == [btc_ret |-> 0, eth_ret |-> 0, gap |-> 0]
NoHeld == [alias |-> FALSE, items |-> <<>>]
NoUpdate == [chat_id |-> "", user_id |-> "", command |-> "", args |-> <<>>]

InitEvalLocals ==
    /\ gap_float = 0
    /\ entry_thresh = 0
    /\ exit_thresh = 0
    /\ invalid_thresh = 0
    /\ events = <<>>
    /\ send_failed = FALSE

InitLoopLocals ==
    /\ price_data = None
    /\ held = NoHeld
    /\ prune_cutoff = 0
    /\ target_time = 0
    /\ price_then = None
    /\ rets = NoRets
    /\ prev_mode = "SCAN"

\* no update taken yet; command_thread_running = True (bot.py:781),
\* last_update_id = 0 (bot.py:82)
InitListenerIdle ==
    /\ update = NoUpdate
    /\ reply = "none"
    /\ command_thread_running = TRUE
    /\ last_update_id = 0
    /\ offset = 0
    /\ updates = <<>>
    /\ inbox = <<>>
    /\ processed = <<>>

InitListenerOff ==
    /\ lpc = "off"
    /\ cmd = NoCmd
    /\ old_lookback = 0
    /\ updates_left = 0
    /\ status_reply = None
    /\ InitListenerIdle

InitGhost ==
    /\ prune_input = <<>>
    /\ stored_before = {}
    /\ appended_since_clear = FALSE
    /\ prev_strategy = "None"
    /\ cycle_clean = FALSE

\* ------------------------------------------------- the history functions
\* One thread alone: append_price, prune_history and get_lookback_price
\* called in the order of main_loop on histories drawn from a bounded set.

BasePrice == 100

HistTimes == {0, 1, 30, 31, 59, 60, 61, 89, 90, 91}
NowTimes == {0, 90, 91, 150, 151}
HistLookbacks == {1, 2}

RECURSIVE SortedSeq(_)
SortedSeq(S) ==
    IF S = {} THEN <<>>
    ELSE LET m == CHOOSE x \in S : \A y \in S : x <= y
         IN  <<PricePoint(m, BasePrice, BasePrice)>> \o SortedSeq(S \ {m})

HistInit ==
    /\ clock \in NowTimes
    /\ now = clock
    /\ settings \in {[DefaultSettings EXCEPT !.lookback_hours = lb,
                                             !.scan_interval = 60] :
                       lb \in HistLookbacks}
    /\ price_history \in {SortedSeq(T) :
            T \in {U \in SUBSET HistTimes : Cardinality(U) <= MaxHistLen}}
    /\ \A i \in DOMAIN price_history : price_history[i].timestamp < now
    /\ current_mode = "SCAN"
    /\ active_strategy = "None"
    /\ pc = "hist_append"
    /\ raises_left = 0
    /\ InitLoopLocals
    /\ InitEvalLocals
    /\ InitListenerOff
    /\ InitGhost

HistAppend ==
    /\ pc = "hist_append"
    /\ price_history' = append_price(price_history, now, BasePrice, BasePrice)
    /\ pc' = "hist_prune"
    /\ UNCHANGED <<current_mode, active_strategy, settings, now, price_data,
                   held, prune_cutoff, target_time, price_then, rets,
                   prev_mode, raises_left, evalVars, listenerVars, clock,
                   ghostVars>>

HistPrune ==
    /\ pc = "hist_prune"
    /\ prune_input' = price_history
    /\ prune_cutoff' = PruneCutoff(now, settings.lookback_hours)
    /\ price_history' = prune_history(price_history, now, settings.lookback_hours)
    /\ pc' = "hist_resolve"
    /\ UNCHANGED <<current_mode, active_strategy, settings, now, price_data,
                   held, target_time, price_then, rets, prev_mode, raises_left,
                   evalVars, listenerVars, clock, stored_before,
                   appended_since_clear, prev_strategy, cycle_clean>>

HistResolve ==
    /\ pc = "hist_resolve"
    /\ target_time' = TargetTime(now, settings.lookback_hours)
    /\ price_then' = get_lookback_price(price_history, now, settings.lookback_hours)
    /\ pc' = "hist_sleep"
    /\ UNCHANGED <<globalVars, now, price_data, held, prune_cutoff, rets,
                   prev_mode, raises_left, evalVars, listenerVars, clock,
                   ghostVars>>

\* time.sleep(settings["scan_interval"]) and the next now = datetime.now()
HistSleep ==
    /\ pc = "hist_sleep"
    /\ clock < MaxMinute
    /\ clock' = clock + settings.scan_interval \div 60
    /\ now' = clock'
    /\ pc' = "hist_append"
    /\ UNCHANGED <<globalVars, price_data, held, prune_cutoff, target_time,
                   price_then, rets, prev_mode, raises_left, evalVars,
                   listenerVars, ghostVars>>

HistNext == HistAppend \/ HistPrune \/ HistResolve \/ HistSleep

SpecHist == HistInit /\ [][HistNext]_vars

\* ------------------------------------------------ evaluate_and_transition
\* One action per read or write of a module global, in program order.

Event(kind, strategy) == [kind |-> kind, strategy |-> strategy]

\* the SCAN branch: which entry fires for the compared value
ScanDecision(gf, entry) ==
    IF gf >= entry THEN "S1"
    ELSE IF gf <= -entry THEN "S2"
    ELSE "none"

TrackDecisionInvalidationFirst(gf, strategy, exit, invalid) ==
    IF strategy = "S1" /\ gf >= invalid THEN "inval_s1"
    ELSE IF strategy = "S2" /\ gf <= -invalid THEN "inval_s2"
    ELSE IF Abs(gf) <= exit THEN "exit"
    ELSE "none"

\* the TRACK branch: exit, then the two invalidations, else nothing
TrackDecision(gf, strategy, exit, invalid) ==
    IF Abs(gf) <= exit THEN "exit"
    ELSE IF strategy = "S1" /\ gf >= invalid THEN "inval_s1"
    ELSE IF strategy = "S2" /\ gf <= -invalid THEN "inval_s2"
    ELSE "none"

\* what an evaluate_and_transition step leaves alone besides what it names
EvalFrame ==
    UNCHANGED <<price_history, settings, now, price_data, held, prune_cutoff,
                target_time, price_then, rets, prev_mode, raises_left,
                listenerVars, clock, ghostVars>>

EvalFloat ==
    /\ pc = "eval_float"
    /\ gap_float' = float(rets.gap)
    /\ events' = <<>>
    /\ send_failed' = FALSE
    /\ pc' = "eval_read_entry"
    /\ UNCHANGED <<current_mode, active_strategy, entry_thresh, exit_thresh,
                   invalid_thresh>>
    /\ EvalFrame

EvalReadEntry ==
    /\ pc = "eval_read_entry"
    /\ entry_thresh' = settings.entry_threshold
    /\ pc' = "eval_read_exit"
    /\ UNCHANGED <<current_mode, active_strategy, gap_float, exit_thresh,
                   invalid_thresh, events, send_failed>>
    /\ EvalFrame

EvalReadExit ==
    /\ pc = "eval_read_exit"
    /\ exit_thresh' = settings.exit_threshold
    /\ pc' = "eval_read_invalid"
    /\ UNCHANGED <<current_mode, active_strategy, gap_float, entry_thresh,
                   invalid_thresh, events, send_failed>>
    /\ EvalFrame

EvalReadInvalid ==
    /\ pc = "eval_read_invalid"
    /\ invalid_thresh' = settings.invalidation_threshold
    /\ pc' = "eval_mode"
    /\ UNCHANGED <<current_mode, active_strategy, gap_float, entry_thresh,
                   exit_thresh, events, send_failed>>
    /\ EvalFrame

EvalScan ==
    /\ pc = "eval_mode"
    /\ current_mode = "SCAN"
    /\ pc' = CASE ScanDecision(gap_float, entry_thresh) = "S1" -> "entry_s1_strategy"
               [] ScanDecision(gap_float, entry_thresh) = "S2" -> "entry_s2_strategy"
               [] OTHER -> "eval_return"
    /\ UNCHANGED <<current_mode, active_strategy, evalVars>>
    /\ EvalFrame

EvalTrack ==
    /\ pc = "eval_mode"
    /\ current_mode = "TRACK"
    /\ LET d == TrackDecision(gap_float, active_strategy, exit_thresh,
                              invalid_thresh)
       IN  pc' = CASE d = "exit" -> "exit_alert"
                   [] d = "inval_s1" -> "inval_s1_alert"
                   [] d = "inval_s2" -> "inval_s2_alert"
                   [] OTHER -> "eval_return"
    /\ UNCHANGED <<current_mode, active_strategy, evalVars>>
    /\ EvalFrame

SetStrategy(here, s, next) ==
    /\ pc = here
    /\ active_strategy' = s
    /\ pc' = next
    /\ UNCHANGED <<current_mode, evalVars>>
    /\ EvalFrame

SetMode(here, m, next) ==
    /\ pc = here
    /\ current_mode' = m
    /\ pc' = next
    /\ UNCHANGED <<active_strategy, evalVars>>
    /\ EvalFrame

SkipWrite(here, next) ==
    /\ pc = here
    /\ pc' = next
    /\ UNCHANGED <<current_mode, active_strategy, evalVars>>
    /\ EvalFrame

\* build_*_message and send_alert, whose result (True, or False when the
\* request fails) the caller drops
SendAlert(here, kind, s, next) ==
    /\ pc = here
    /\ events' = Append(events, Event(kind, s))
    /\ \E sent \in BOOLEAN : send_failed' = (send_failed \/ ~ sent)
    /\ pc' = next
    /\ UNCHANGED <<current_mode, active_strategy, gap_float, entry_thresh,
                   exit_thresh, invalid_thresh>>
    /\ EvalFrame

EntryS1Strategy == SetStrategy("entry_s1_strategy", "S1", "entry_s1_mode")
EntryS1Mode == SetMode("entry_s1_mode", "TRACK", "entry_s1_alert")
EntryS1Alert == SendAlert("entry_s1_alert", "ENTRY", "S1", "eval_return")

EntryS2Strategy == SetStrategy("entry_s2_strategy", "S2", "entry_s2_mode")
EntryS2Mode == SetMode("entry_s2_mode", "TRACK", "entry_s2_alert")
EntryS2Alert == SendAlert("entry_s2_alert", "ENTRY", "S2", "eval_return")

ExitAlertGated ==
    /\ pc = "exit_alert"
    /\ events' = Append(events, Event("EXIT", "None"))
    /\ \E sent \in BOOLEAN :
          /\ send_failed' = (send_failed \/ ~ sent)
          /\ pc' = IF sent THEN "exit_mode" ELSE "eval_return"
    /\ UNCHANGED <<current_mode, active_strategy, gap_float, entry_thresh,
                   exit_thresh, invalid_thresh>>
    /\ EvalFrame

ExitAlert == SendAlert("exit_alert", "EXIT", "None", "exit_mode")
ExitSkipMode == SkipWrite("exit_mode", "exit_strategy")
ExitMode == SetMode("exit_mode", "SCAN", "exit_strategy")
ExitStrategy == SetStrategy("exit_strategy", "None", "eval_return")

InvalS1Alert == SendAlert("inval_s1_alert", "INVALIDATION", "S1", "inval_s1_mode")
InvalS1Mode == SetMode("inval_s1_mode", "SCAN", "inval_s1_strategy")
InvalS1Strategy == SetStrategy("inval_s1_strategy", "None", "eval_return")

InvalS2Alert == SendAlert("inval_s2_alert", "INVALIDATION", "S2", "inval_s2_mode")
InvalS2Mode == SetMode("inval_s2_mode", "SCAN", "inval_s2_strategy")
InvalS2Strategy == SetStrategy("inval_s2_strategy", "None", "eval_return")

EvalStep ==
    \/ EvalFloat \/ EvalReadEntry \/ EvalReadExit \/ EvalReadInvalid
    \/ EvalScan \/ EvalTrack
    \/ EntryS1Strategy \/ EntryS1Mode \/ EntryS1Alert
    \/ EntryS2Strategy \/ EntryS2Mode \/ EntryS2Alert
    \/ ExitAlert \/ ExitMode \/ ExitStrategy
    \/ InvalS1Alert \/ InvalS1Mode \/ InvalS1Strategy
    \/ InvalS2Alert \/ InvalS2Mode \/ InvalS2Strategy

\* ------------------------------------------------------ command listener
\* cmd is one update as process_commands sees it after splitting the text:
\* name is the command, kind the threshold type, arg the parsed number.

Command(name, kind, arg) == [name |-> name, arg |-> arg, kind |-> kind]

ListenerFrame ==
    UNCHANGED <<current_mode, active_strategy, loopVars, evalVars, clock,
                prune_input, prev_strategy, command_thread_running,
                last_update_id, offset, updates, inbox, processed>>

\* get_telegram_updates hands one update to the dispatch of process_commands
ListenerPoll(c) ==
    /\ lpc = "poll"
    /\ updates_left > 0
    /\ updates_left' = updates_left - 1
    /\ cmd' = c
    /\ lpc' = CASE c.name = "/threshold" -> "threshold"
                [] c.name = "/lookback" -> "lookback_old"
                [] c.name = "/status" -> "status_mode"
                [] c.name = "/interval" -> "interval"
    /\ status_reply' = None
    /\ reply' = "none"
    /\ cycle_clean' = FALSE
    /\ UNCHANGED <<price_history, settings, old_lookback, stored_before,
                   appended_since_clear>>
    /\ ListenerFrame

ThresholdTypes == {"entry", "exit", "invalid", "invalidation"}

ThresholdField(kind) ==
    CASE kind = "entry" -> "entry_threshold"
      [] kind = "exit" -> "exit_threshold"
      [] kind \in {"invalid", "invalidation"} -> "invalidation_threshold"

\* the two range tests of handle_threshold_command on the parsed float
ThresholdRejected(value) ==
    FloatLE(value, 0) \/ FloatGT(value, MAX_THRESHOLD_PERCENT * PctUnit)

\* from the range tests on: the write, or the reply that refuses it
handle_threshold_command ==
    /\ lpc = "threshold"
    /\ LET refused == ThresholdRejected(cmd.arg)
                          \/ cmd.kind \notin ThresholdTypes
       IN  /\ settings' =
                 IF refused THEN settings
                 ELSE [settings EXCEPT ![ThresholdField(cmd.kind)] = cmd.arg]
           /\ reply' = IF refused THEN "error" ELSE "ok"
    /\ cmd' = NoCmd
    /\ lpc' = "poll"
    /\ UNCHANGED <<price_history, old_lookback, updates_left, status_reply,
                   update, stored_before, appended_since_clear, cycle_clean>>
    /\ ListenerFrame

IntervalRejectedNoMin(value) == value > MAX_SCAN_INTERVAL_SECONDS

IntervalRejectedNoMax(value) == value < MIN_SCAN_INTERVAL_SECONDS

IntervalRejected(value) ==
    value < MIN_SCAN_INTERVAL_SECONDS \/ value > MAX_SCAN_INTERVAL_SECONDS

\* handle_interval_command from the range tests on
handle_interval_command ==
    /\ lpc = "interval"
    /\ settings' = IF IntervalRejected(cmd.arg) THEN settings
                   ELSE [settings EXCEPT !.scan_interval = cmd.arg]
    /\ reply' = IF IntervalRejected(cmd.arg) THEN "error" ELSE "ok"
    /\ cmd' = NoCmd
    /\ lpc' = "poll"
    /\ UNCHANGED <<price_history, old_lookback, updates_left, status_reply,
                   update, stored_before, appended_since_clear, cycle_clean>>
    /\ ListenerFrame

\* --------------------------------------------- the state machine on its own
\* evaluate_and_transition called with any gap of a bounded range, as
\* main_loop calls it, while the listener changes the thresholds.

ThresholdValues == {EXIT_THRESHOLD, ENTRY_THRESHOLD, INVALIDATION_THRESHOLD}
GapRange == (-(INVALIDATION_THRESHOLD + FloatUlp + 1)) ..
            (INVALIDATION_THRESHOLD + FloatUlp + 1)
ThresholdCommands ==
    {Command("/threshold", k, v) :
        k \in {"entry", "exit", "invalid"}, v \in ThresholdValues}

EvalInit ==
    /\ price_history = <<>>
    /\ current_mode = "SCAN"
    /\ active_strategy = "None"
    /\ settings = DefaultSettings
    /\ pc = "eval_call"
    /\ now = 0
    /\ clock = 0
    /\ InitLoopLocals
    /\ InitEvalLocals
    /\ lpc = "poll"
    /\ cmd = NoCmd
    /\ old_lookback = 0
    /\ updates_left = MaxThresholdUpdates
    /\ status_reply = None
    /\ InitListenerIdle
    /\ raises_left = 0
    /\ InitGhost

\* main_loop: prev_mode = current_mode; evaluate_and_transition(.., gap)
EvalCall(g) ==
    /\ pc = "eval_call"
    /\ rets' = [btc_ret |-> 0, eth_ret |-> g, gap |-> g]
    /\ prev_mode' = current_mode
    /\ prev_strategy' = active_strategy
    /\ pc' = "eval_float"
    /\ UNCHANGED <<globalVars, evalVars, now, price_data, held, prune_cutoff,
                   target_time, price_then, raises_left, listenerVars, clock,
                   prune_input, stored_before, appended_since_clear,
                   cycle_clean>>

\* the call returns; its locals are gone
EvalReturn ==
    /\ pc = "eval_return"
    /\ pc' = "eval_call"
    /\ gap_float' = 0
    /\ entry_thresh' = 0
    /\ exit_thresh' = 0
    /\ invalid_thresh' = 0
    /\ events' = <<>>
    /\ send_failed' = FALSE
    /\ rets' = NoRets
    /\ prev_mode' = "SCAN"
    /\ prev_strategy' = "None"
    /\ UNCHANGED <<globalVars, now, price_data, held, prune_cutoff,
                   target_time, price_then, raises_left, listenerVars, clock,
                   prune_input, stored_before, appended_since_clear,
                   cycle_clean>>

EvalAnyCall == \E g \in GapRange : EvalCall(g)

EvalThresholdUpdate ==
    \E c \in ThresholdCommands : ListenerPoll(c) /\ UNCHANGED update

EvalNext ==
    \/ EvalAnyCall
    \/ EvalStep
    \/ EvalReturn
    \/ EvalThresholdUpdate
    \/ handle_threshold_command

SpecEval == EvalInit /\ [][EvalNext]_vars

\* ------------------------------------------------------------ main_loop
\* The sampling loop, one action per read or write of a module global.
\* A list object is reached through the global price_history or through a
\* reference a running call has loaded: held.alias says that the loaded
\* object is still the one the global is bound to, held.items holds its
\* content once it is not.

PriceData(btc, eth, btc_at, eth_at) ==
    [btc_price |-> btc, eth_price |-> eth,
     btc_updated_at |-> btc_at, eth_updated_at |-> eth_at]

is_data_fresh(t, btc_updated, eth_updated) ==
    /\ ~ (t - btc_updated > FRESHNESS_THRESHOLD_MINUTES)
    /\ ~ (t - eth_updated > FRESHNESS_THRESHOLD_MINUTES)

Timestamps(hist) == {hist[i].timestamp : i \in DOMAIN hist}

\* what fetch_prices can return at time t
EthPrices == {BasePrice, BasePrice + 2}
QuoteAges == {<<0, 0>>, <<FRESHNESS_THRESHOLD_MINUTES + 1, 0>>}
FetchResults(t) ==
    {None} \cup
    {Some(PriceData(BasePrice, e, t - a[1], t - a[2])) :
        e \in EthPrices, a \in QuoteAges}

\* minutes that can pass between two cycles
ClockSteps == {30, 60}

LoopFrame ==
    UNCHANGED <<current_mode, active_strategy, settings, evalVars,
                listenerVars, prune_input, raises_left>>

MainTop ==
    /\ pc = "loop_top"
    /\ now' = clock
    /\ cycle_clean' = (lpc \in {"poll", "loop", "off"})
    /\ pc' = "fetch"
    /\ UNCHANGED <<price_history, price_data, held, prune_cutoff, target_time,
                   price_then, rets, prev_mode, clock, stored_before,
                   appended_since_clear, prev_strategy>>
    /\ LoopFrame

\* price_data = fetch_prices() and the test for None
Fetch(results) ==
    /\ pc = "fetch"
    /\ \E pd \in results :
          /\ price_data' = pd
          /\ pc' = IF pd = None THEN "sleep" ELSE "fresh_check"
    /\ UNCHANGED <<price_history, now, held, prune_cutoff, target_time,
                   price_then, rets, prev_mode, clock, stored_before,
                   appended_since_clear, prev_strategy,
                   cycle_clean>>
    /\ LoopFrame

FreshCheckIgnored ==
    /\ pc = "fresh_check"
    /\ pc' = "append_load"
    /\ UNCHANGED <<price_history, now, price_data, held, prune_cutoff,
                   target_time, price_then, rets, prev_mode, clock,
                   stored_before, appended_since_clear, prev_strategy,
                   cycle_clean>>
    /\ LoopFrame

MainFreshCheck ==
    /\ pc = "fresh_check"
    /\ pc' = IF is_data_fresh(now, price_data[1].btc_updated_at,
                              price_data[1].eth_updated_at)
             THEN "append_load" ELSE "sleep"
    /\ UNCHANGED <<price_history, now, price_data, held, prune_cutoff,
                   target_time, price_then, rets, prev_mode, clock,
                   stored_before, appended_since_clear, prev_strategy,
                   cycle_clean>>
    /\ LoopFrame

MainFetch == Fetch(FetchResults(now))

\* append_price: the global is loaded, then append is called on that object
MainAppendLoad ==
    /\ pc = "append_load"
    /\ held' = [alias |-> TRUE, items |-> <<>>]
    /\ pc' = "append_call"
    /\ UNCHANGED <<price_history, now, price_data, prune_cutoff, target_time,
                   price_then, rets, prev_mode, clock, stored_before,
                   appended_since_clear, prev_strategy,
                   cycle_clean>>
    /\ LoopFrame

MainAppendCall ==
    /\ pc = "append_call"
    /\ price_history' =
         IF held.alias
         THEN append_price(price_history, now, price_data[1].btc_price,
                           price_data[1].eth_price)
         ELSE price_history
    /\ held' = NoHeld
    /\ appended_since_clear' = TRUE
    /\ pc' = "prune_lookback"
    /\ UNCHANGED <<now, price_data, prune_cutoff, target_time, price_then,
                   rets, prev_mode, clock, stored_before, prev_strategy,
                   cycle_clean>>
    /\ LoopFrame

\* prune_history: lookback and cutoff
MainPruneLookback ==
    /\ pc = "prune_lookback"
    /\ prune_cutoff' = PruneCutoff(now, settings.lookback_hours)
    /\ pc' = "prune_load"
    /\ UNCHANGED <<price_history, now, price_data, held, target_time,
                   price_then, rets, prev_mode, clock, stored_before,
                   appended_since_clear, prev_strategy,
                   cycle_clean>>
    /\ LoopFrame

\* prune_history: the comprehension iterates the list the global is bound to
MainPruneLoad ==
    /\ pc = "prune_load"
    /\ held' = [alias |-> FALSE, items |-> price_history]
    /\ pc' = "prune_store"
    /\ UNCHANGED <<price_history, now, price_data, prune_cutoff, target_time,
                   price_then, rets, prev_mode, clock, stored_before,
                   appended_since_clear, prev_strategy,
                   cycle_clean>>
    /\ LoopFrame

\* prune_history: the filtered copy is bound to the global
MainPruneStore ==
    /\ pc = "prune_store"
    /\ price_history' = PruneFilter(held.items, prune_cutoff)
    /\ held' = NoHeld
    /\ pc' = "resolve_lookback"
    /\ UNCHANGED <<now, price_data, prune_cutoff, target_time, price_then,
                   rets, prev_mode, clock, stored_before,
                   appended_since_clear, prev_strategy,
                   cycle_clean>>
    /\ LoopFrame

\* get_lookback_price: lookback and target_time
MainResolveLookback ==
    /\ pc = "resolve_lookback"
    /\ target_time' = TargetTime(now, settings.lookback_hours)
    /\ pc' = "resolve_scan"
    /\ UNCHANGED <<price_history, now, price_data, held, prune_cutoff,
                   price_then, rets, prev_mode, clock, stored_before,
                   appended_since_clear, prev_strategy,
                   cycle_clean>>
    /\ LoopFrame

ResolveScanFallsBack ==
    /\ pc = "resolve_scan"
    /\ price_then' = IF LookbackScan(price_history, target_time) = None
                        /\ price_history # <<>>
                     THEN Some(price_history[Len(price_history)])
                     ELSE LookbackScan(price_history, target_time)
    /\ pc' = IF price_then' = None THEN "sleep" ELSE "compute"
    /\ UNCHANGED <<price_history, now, price_data, held, prune_cutoff,
                   target_time, rets, prev_mode, clock, stored_before,
                   appended_since_clear, prev_strategy,
                   cycle_clean>>
    /\ LoopFrame

\* get_lookback_price: the scan of the list the global is bound to
MainResolveScan ==
    /\ pc = "resolve_scan"
    /\ price_then' = LookbackScan(price_history, target_time)
    /\ pc' = IF price_then' = None THEN "sleep" ELSE "compute"
    /\ UNCHANGED <<price_history, now, price_data, held, prune_cutoff,
                   target_time, rets, prev_mode, clock, stored_before,
                   appended_since_clear, prev_strategy,
                   cycle_clean>>
    /\ LoopFrame

\* a division of compute_returns raises (DivisionByZero, InvalidOperation)
ZeroReference(point) == point.btc = 0 \/ point.eth = 0

\* compute_returns, prev_mode = current_mode, the call of the state machine;
\* what compute_returns raises goes to the except clause of main_loop
MainCompute ==
    /\ pc = "compute"
    /\ IF ZeroReference(price_then[1])
       THEN /\ pc' = "backoff"
            /\ UNCHANGED <<rets, prev_mode, prev_strategy>>
       ELSE /\ rets' = compute_returns(price_data[1].btc_price,
                                       price_data[1].eth_price,
                                       price_then[1].btc, price_then[1].eth)
            /\ prev_mode' = current_mode
            /\ prev_strategy' = active_strategy
            /\ pc' = "eval_float"
    /\ UNCHANGED <<price_history, now, price_data, held, prune_cutoff,
                   target_time, price_then, clock, stored_before,
                   appended_since_clear, cycle_clean>>
    /\ LoopFrame

\* back in main_loop after evaluate_and_transition
MainAfterEval ==
    /\ pc = "eval_return"
    /\ pc' = "sleep"
    /\ gap_float' = 0
    /\ entry_thresh' = 0
    /\ exit_thresh' = 0
    /\ invalid_thresh' = 0
    /\ events' = <<>>
    /\ send_failed' = FALSE
    /\ UNCHANGED <<globalVars, now, price_data, held, prune_cutoff,
                   target_time, price_then, rets, prev_mode, raises_left,
                   listenerVars, clock, ghostVars>>

\* time.sleep(settings["scan_interval"]); the locals of the cycle are dead
MainSleep ==
    /\ pc = "sleep"
    /\ \E d \in ClockSteps :
          /\ d * 60 >= settings.scan_interval
          /\ clock + d <= MaxClock
          /\ clock' = clock + d
    /\ price_data' = None
    /\ price_then' = None
    /\ rets' = NoRets
    /\ prev_mode' = "SCAN"
    /\ prev_strategy' = "None"
    /\ prune_cutoff' = 0
    /\ target_time' = 0
    /\ cycle_clean' = FALSE
    /\ pc' = "loop_top"
    /\ UNCHANGED <<globalVars, evalVars, now, held, raises_left, listenerVars,
                   prune_input, stored_before, appended_since_clear>>

MainStep ==
    \/ MainTop \/ MainFetch \/ MainFreshCheck
    \/ MainAppendLoad \/ MainAppendCall
    \/ MainPruneLookback \/ MainPruneLoad \/ MainPruneStore
    \/ MainResolveLookback \/ MainResolveScan
    \/ MainCompute \/ EvalStep \/ MainAfterEval \/ MainSleep

\* ------------------------------------------------ the sampling loop alone
\* main_loop with what ends or cuts a cycle short: a feed that sends zero
\* prices, an exception raised inside the try block, an interrupt.  The
\* listener thread runs its loop and receives no update.

\* exceptions raised in a run, other than those of compute_returns
MaxRaises == 1

LoopPrices == {<<BasePrice, BasePrice>>, <<BasePrice, BasePrice + 2>>,
               <<0, BasePrice>>, <<BasePrice, 0>>}
LoopQuoteAges == {<<0, 0>>,
                  <<FRESHNESS_THRESHOLD_MINUTES, FRESHNESS_THRESHOLD_MINUTES>>,
                  <<FRESHNESS_THRESHOLD_MINUTES + 1, 0>>,
                  <<0, FRESHNESS_THRESHOLD_MINUTES + 1>>}
\* fetch_prices keeps a price the feed sends as the text "0"
LoopFetchResults(t) ==
    {None} \cup
    {Some(PriceData(p[1], p[2], t - a[1], t - a[2])) :
        p \in LoopPrices, a \in LoopQuoteAges}

LoopFetch == Fetch(LoopFetchResults(now))

\* calls of the cycle that can raise: fetch_prices on a malformed body, the
\* message builders and send_alert
RaisePoints == {"fetch", "entry_s1_alert", "entry_s2_alert", "exit_alert",
                "inval_s1_alert", "inval_s2_alert"}

\* the locals of a cycle that has ended
CycleOver ==
    /\ price_data' = None
    /\ price_then' = None
    /\ rets' = NoRets
    /\ prev_mode' = "SCAN"
    /\ prev_strategy' = "None"
    /\ prune_cutoff' = 0
    /\ target_time' = 0
    /\ held' = NoHeld
    /\ gap_float' = 0
    /\ entry_thresh' = 0
    /\ exit_thresh' = 0
    /\ invalid_thresh' = 0
    /\ events' = <<>>
    /\ send_failed' = FALSE
    /\ cycle_clean' = FALSE

\* an exception that is not KeyboardInterrupt reaches "except Exception"
MainRaise ==
    /\ pc \in RaisePoints
    /\ raises_left > 0
    /\ raises_left' = raises_left - 1
    /\ pc' = "backoff"
    /\ CycleOver
    /\ UNCHANGED <<globalVars, now, listenerVars, clock, prune_input,
                   stored_before, appended_since_clear>>

BackoffStops ==
    /\ pc = "backoff"
    /\ pc' = "stopped"
    /\ CycleOver
    /\ UNCHANGED <<globalVars, now, raises_left, listenerVars, clock,
                   prune_input, stored_before, appended_since_clear>>

\* logger.exception; time.sleep(60); the loop goes on
MainBackoff ==
    /\ pc = "backoff"
    /\ \E d \in ClockSteps :
          /\ d * 60 >= BACKOFF_SECONDS
          /\ clock + d <= MaxClock
          /\ clock' = clock + d
    /\ pc' = "loop_top"
    /\ CycleOver
    /\ UNCHANGED <<globalVars, now, raises_left, listenerVars, prune_input,
                   stored_before, appended_since_clear>>

\* KeyboardInterrupt in the main thread: "except KeyboardInterrupt: break",
\* or out of the except clause when it comes during the sleep of 60 seconds;
\* main_loop returns
MainInterrupt ==
    /\ pc # "stopped"
    /\ pc' = "stopped"
    /\ CycleOver
    /\ UNCHANGED <<globalVars, now, raises_left, listenerVars, clock,
                   prune_input, stored_before, appended_since_clear>>

\* command_polling_thread: while command_thread_running
ListenerLoopTest ==
    /\ lpc = "loop"
    /\ lpc' = IF command_thread_running THEN "poll" ELSE "exited"
    /\ UNCHANGED <<price_history, settings, cmd, old_lookback, updates_left,
                   status_reply, update, reply, stored_before,
                   appended_since_clear, cycle_clean>>
    /\ ListenerFrame

\* process_commands when get_telegram_updates returns no update
ListenerNoUpdates ==
    /\ lpc = "poll"
    /\ updates_left = 0
    /\ lpc' = "loop"
    /\ UNCHANGED <<price_history, settings, cmd, old_lookback, updates_left,
                   status_reply, update, reply, stored_before,
                   appended_since_clear, cycle_clean>>
    /\ ListenerFrame

LoopInit ==
    /\ price_history = <<>>
    /\ current_mode = "SCAN"
    /\ active_strategy = "None"
    /\ settings = DefaultSettings
    /\ pc = "loop_top"
    /\ now = 0
    /\ clock = 0
    /\ raises_left = MaxRaises
    /\ InitLoopLocals
    /\ InitEvalLocals
    /\ lpc = "loop"
    /\ cmd = NoCmd
    /\ old_lookback = 0
    /\ updates_left = 0
    /\ status_reply = None
    /\ InitListenerIdle
    /\ InitGhost

LoopNext ==
    \/ MainTop \/ LoopFetch \/ MainFreshCheck
    \/ MainAppendLoad \/ MainAppendCall
    \/ MainPruneLookback \/ MainPruneLoad \/ MainPruneStore
    \/ MainResolveLookback \/ MainResolveScan
    \/ MainCompute \/ EvalStep \/ MainAfterEval \/ MainSleep
    \/ MainRaise \/ MainBackoff \/ MainInterrupt
    \/ ListenerLoopTest \/ ListenerNoUpdates

SpecLoop == LoopInit /\ [][LoopNext]_vars

\* the steps the main thread takes by itself
MainProgress ==
    \/ MainTop \/ LoopFetch \/ MainFreshCheck
    \/ MainAppendLoad \/ MainAppendCall
    \/ MainPruneLookback \/ MainPruneLoad \/ MainPruneStore
    \/ MainResolveLookback \/ MainResolveScan
    \/ MainCompute \/ EvalStep \/ MainAfterEval \/ MainSleep
    \/ MainBackoff

\* the same loop in a run without interrupt
LiveNext ==
    \/ MainProgress
    \/ MainRaise
    \/ ListenerLoopTest \/ ListenerNoUpdates

\* the main thread is scheduled again and again, and its calls return
SpecLoopLive == LoopInit /\ [][LiveNext]_vars /\ WF_vars(MainProgress)

\* ---------------------------------------- /lookback and /status handlers

\* handle_lookback_command: int(args[0]), the range checks, old_lookback
LookbackReadOld ==
    /\ lpc = "lookback_old"
    /\ IF cmd.arg < MIN_LOOKBACK_HOURS \/ cmd.arg > MAX_LOOKBACK_HOURS
       THEN /\ lpc' = "poll"
            /\ cmd' = NoCmd
            /\ reply' = "error"
            /\ UNCHANGED old_lookback
       ELSE /\ old_lookback' = settings.lookback_hours
            /\ lpc' = "lookback_write"
            /\ UNCHANGED <<cmd, reply>>
    /\ UNCHANGED <<price_history, settings, updates_left, status_reply,
                   update, stored_before, appended_since_clear, cycle_clean>>
    /\ ListenerFrame

\* settings["lookback_hours"] = new_lookback
LookbackWrite ==
    /\ lpc = "lookback_write"
    /\ settings' = [settings EXCEPT !.lookback_hours = cmd.arg]
    /\ stored_before' = stored_before \cup Timestamps(price_history)
                                      \cup Timestamps(held.items)
    /\ lpc' = "lookback_clear"
    /\ UNCHANGED <<price_history, cmd, old_lookback, updates_left,
                   status_reply, update, reply, appended_since_clear,
                   cycle_clean>>
    /\ ListenerFrame

ClearOnlyOnChange ==
    /\ lpc = "lookback_clear"
    /\ price_history' =
         IF old_lookback = settings.lookback_hours THEN price_history ELSE <<>>
    /\ held' = IF held.alias /\ old_lookback # settings.lookback_hours
               THEN [alias |-> FALSE, items |-> price_history] ELSE held
    /\ stored_before' = stored_before \cup Timestamps(price_history)
                                      \cup Timestamps(held.items)
    /\ appended_since_clear' = FALSE
    /\ lpc' = "lookback_reply"
    /\ UNCHANGED <<current_mode, active_strategy, settings, evalVars, pc, now,
                   price_data, prune_cutoff, target_time, price_then, rets,
                   prev_mode, raises_left, cmd, old_lookback, updates_left,
                   status_reply, update, reply, command_thread_running,
                   last_update_id, offset, updates, inbox, processed,
                   clock, prune_input, prev_strategy, cycle_clean>>

\* price_history = []: the global is bound to a new empty list; a call that
\* has loaded the old list keeps it
LookbackClear ==
    /\ lpc = "lookback_clear"
    /\ price_history' = <<>>
    /\ held' = IF held.alias
               THEN [alias |-> FALSE, items |-> price_history] ELSE held
    /\ stored_before' = stored_before \cup Timestamps(price_history)
                                      \cup Timestamps(held.items)
    /\ appended_since_clear' = FALSE
    /\ lpc' = "lookback_reply"
    /\ UNCHANGED <<current_mode, active_strategy, settings, evalVars, pc, now,
                   price_data, prune_cutoff, target_time, price_then, rets,
                   prev_mode, raises_left, cmd, old_lookback, updates_left,
                   status_reply, update, reply, command_thread_running,
                   last_update_id, offset, updates, inbox, processed,
                   clock, prune_input, prev_strategy, cycle_clean>>

\* send_reply; the command has completed
LookbackReply ==
    /\ lpc = "lookback_reply"
    /\ lpc' = "poll"
    /\ cmd' = NoCmd
    /\ old_lookback' = 0
    /\ reply' = "ok"
    /\ UNCHANGED <<price_history, settings, updates_left, status_reply,
                   update, stored_before, appended_since_clear, cycle_clean>>
    /\ ListenerFrame

\* handle_status_command: the f-string reads current_mode.value ...
StatusReadMode ==
    /\ lpc = "status_mode"
    /\ status_reply' = Some([mode |-> current_mode, strategy |-> "unread"])
    /\ lpc' = "status_strategy"
    /\ UNCHANGED <<price_history, settings, cmd, old_lookback, updates_left,
                   update, reply, stored_before, appended_since_clear,
                   cycle_clean>>
    /\ ListenerFrame

\* ... then active_strategy, and the reply is sent
StatusReadStrategy ==
    /\ lpc = "status_strategy"
    /\ status_reply' = Some([status_reply[1] EXCEPT !.strategy = active_strategy])
    /\ lpc' = "poll"
    /\ cmd' = NoCmd
    /\ UNCHANGED <<price_history, settings, old_lookback, updates_left,
                   update, reply, stored_before, appended_since_clear,
                   cycle_clean>>
    /\ ListenerFrame

\* --------------------------------------------------------- the two threads

LookbackValues == {1, 2}
SpecCommands ==
    {Command("/lookback", "none", h) : h \in LookbackValues}
    \cup {Command("/status", "none", 0)}
    \cup {Command("/threshold", "invalid", ENTRY_THRESHOLD)}

Init ==
    /\ price_history = <<>>
    /\ current_mode = "SCAN"
    /\ active_strategy = "None"
    /\ settings = DefaultSettings
    /\ pc = "loop_top"
    /\ now = 0
    /\ clock = 0
    /\ InitLoopLocals
    /\ InitEvalLocals
    /\ lpc = "poll"
    /\ cmd = NoCmd
    /\ old_lookback = 0
    /\ updates_left = MaxUpdates
    /\ status_reply = None
    /\ InitListenerIdle
    /\ raises_left = 0
    /\ InitGhost

ListenerReceive ==
    \E c \in SpecCommands : ListenerPoll(c) /\ UNCHANGED update

ListenerStep ==
    \/ ListenerReceive
    \/ handle_threshold_command
    \/ LookbackReadOld \/ LookbackWrite \/ LookbackClear \/ LookbackReply
    \/ StatusReadMode \/ StatusReadStrategy

Next == MainStep \/ ListenerStep

Spec == Init /\ [][Next]_vars

\* ------------------------------------------------------ the listener alone
\* process_commands on updates as Telegram delivers them: the sender, the
\* command word and the argument words of the text, still unparsed.

\* config.py: the configured destination chat
TELEGRAM_CHAT_ID == "owner"

Update(chat_id, user_id, command, args) ==
    [chat_id |-> chat_id, user_id |-> user_id, command |-> command,
     args |-> args]

is_authorized(chat_id, user_id) ==
    chat_id = TELEGRAM_CHAT_ID \/ chat_id = user_id

\* int(text) on the argument texts of the runs: <<n>>, or None for ValueError
int(text) ==
    CASE text = "-1" -> Some(-1)
      [] text = "0" -> Some(0)
      [] text = "1" -> Some(1)
      [] text = "24" -> Some(24)
      [] text = "25" -> Some(25)
      [] text = "59" -> Some(59)
      [] text = "60" -> Some(60)
      [] text = "3600" -> Some(3600)
      [] text = "3601" -> Some(3601)
      [] OTHER -> None

\* float("inf")
Inf == MAX_THRESHOLD_PERCENT * PctUnit * PctUnit

\* float(text) on the same texts: "nan" and "inf" are floats, "abc" is not
float_text(text) ==
    CASE text = "nan" -> Some(NaN)
      [] text = "inf" -> Some(Inf)
      [] text = "2.5" -> Some(5 * FloatUlp)
      [] text = "20.5" -> Some(41 * FloatUlp)
      [] int(text) # None -> Some(int(text)[1] * PctUnit)
      [] OTHER -> None

\* what the handler of u answers before it reads or writes a global: the
\* reply of an early return, or "dispatch" when the arguments parse
Prologue(u) ==
    CASE u.command = "/interval" ->
            IF u.args = <<>> THEN "error"
            ELSE IF int(u.args[1]) = None THEN "error" ELSE "dispatch"
      [] u.command = "/lookback" ->
            IF u.args = <<>> THEN "usage"
            ELSE IF int(u.args[1]) = None THEN "error" ELSE "dispatch"
      [] u.command = "/threshold" ->
            IF Len(u.args) < 2 THEN "error"
            ELSE IF float_text(u.args[2]) = None THEN "error" ELSE "dispatch"
      [] u.command = "/status" -> "dispatch"
      [] OTHER -> "none"

\* the command a handler goes on with once its arguments have parsed
ParsedCommand(u) ==
    CASE u.command = "/threshold" ->
            Command(u.command, u.args[1], float_text(u.args[2])[1])
      [] u.command = "/status" -> Command(u.command, "none", 0)
      [] OTHER -> Command(u.command, "none", int(u.args[1])[1])

\* one update of the for loop of process_commands
process_commands(u) ==
    /\ update' = u
    /\ IF is_authorized(u.chat_id, u.user_id) /\ Prologue(u) = "dispatch"
       THEN ListenerPoll(ParsedCommand(u))
       ELSE /\ lpc = "poll"
            /\ updates_left > 0
            /\ updates_left' = updates_left - 1
            /\ reply' = IF is_authorized(u.chat_id, u.user_id)
                        THEN Prologue(u) ELSE "none"
            /\ status_reply' = None
            /\ UNCHANGED <<price_history, settings, lpc, cmd, old_lookback,
                           stored_before, appended_since_clear, cycle_clean>>
            /\ ListenerFrame

Senders == {<<TELEGRAM_CHAT_ID, TELEGRAM_CHAT_ID>>,
            <<TELEGRAM_CHAT_ID, "member">>,
            <<"stranger", "stranger">>,
            <<"group", "stranger">>}
IntervalArgs == {<<>>, <<"abc">>, <<"2.5">>, <<"59">>, <<"60">>, <<"3600">>,
                 <<"3601">>}
LookbackArgs == {<<>>, <<"abc">>, <<"2.5">>, <<"0">>, <<"1">>, <<"24">>,
                 <<"25">>}
ThresholdArgs == {<<>>, <<"entry">>, <<"entry", "abc">>, <<"entry", "0">>,
                  <<"exit", "-1">>, <<"entry", "2.5">>, <<"exit", "1">>,
                  <<"invalid", "20.5">>, <<"invalidation", "2.5">>,
                  <<"foo", "2.5">>, <<"invalid", "inf">>, <<"entry", "nan">>}
OwnerTexts ==
    {<<"/interval", a>> : a \in IntervalArgs}
    \cup {<<"/lookback", a>> : a \in LookbackArgs}
    \cup {<<"/threshold", a>> : a \in ThresholdArgs}
    \cup {<<"/status", <<>>>>, <<"hello", <<>>>>, <<"/unknown", <<>>>>}
OtherTexts == {<<"/interval", <<"60">>>>, <<"/lookback", <<"24">>>>,
               <<"/threshold", <<"exit", "1">>>>}
CmdUpdates ==
    {Update(TELEGRAM_CHAT_ID, TELEGRAM_CHAT_ID, t[1], t[2]) : t \in OwnerTexts}
    \cup {Update(sd[1], sd[2], t[1], t[2]) : sd \in Senders, t \in OtherTexts}

CmdReceive == \E u \in CmdUpdates : process_commands(u)

CmdInit ==
    /\ price_history = <<PricePoint(0, BasePrice, BasePrice)>>
    /\ current_mode = "SCAN"
    /\ active_strategy = "None"
    /\ settings = DefaultSettings
    /\ pc = "sleep"
    /\ now = 0
    /\ clock = 0
    /\ raises_left = 0
    /\ InitLoopLocals
    /\ InitEvalLocals
    /\ lpc = "poll"
    /\ cmd = NoCmd
    /\ old_lookback = 0
    /\ updates_left = MaxUpdates
    /\ status_reply = None
    /\ InitListenerIdle
    /\ InitGhost

CmdNext ==
    \/ CmdReceive
    \/ handle_interval_command
    \/ handle_threshold_command
    \/ LookbackReadOld \/ LookbackWrite \/ LookbackClear \/ LookbackReply
    \/ StatusReadMode \/ StatusReadStrategy

SpecCmd == CmdInit /\ [][CmdNext]_vars

\* ------------------------------------------------- compute_returns alone
\* One call of compute_returns on four prices drawn from a bounded set of
\* nonzero Decimals, as main_loop passes them (bot.py:857-862).

RetPrices == {-BasePrice, 1, 3, BasePrice, BasePrice + 1, BasePrice + 7}

RetInit ==
    /\ price_history = <<>>
    /\ current_mode = "SCAN"
    /\ active_strategy = "None"
    /\ settings = DefaultSettings
    /\ pc = "ret_call"
    /\ now = 0
    /\ clock = 0
    /\ raises_left = 0
    /\ \E b \in RetPrices, e \in RetPrices :
          price_data = Some(PriceData(b, e, 0, 0))
    /\ \E b \in RetPrices, e \in RetPrices :
          price_then = Some(PricePoint(0, b, e))
    /\ held = NoHeld
    /\ prune_cutoff = 0
    /\ target_time = 0
    /\ rets = NoRets
    /\ prev_mode = "SCAN"
    /\ InitEvalLocals
    /\ InitListenerOff
    /\ InitGhost

RetCompute ==
    /\ pc = "ret_call"
    /\ rets' = compute_returns(price_data[1].btc_price,
                               price_data[1].eth_price,
                               price_then[1].btc, price_then[1].eth)
    /\ pc' = "ret_done"
    /\ UNCHANGED <<globalVars, evalVars, now, price_data, held, prune_cutoff,
                   target_time, price_then, prev_mode, raises_left,
                   listenerVars, clock, ghostVars>>

RetNext == RetCompute

SpecRet == RetInit /\ [][RetNext]_vars

\* ------------------------------------------ the two sleeps of main_loop
\* main_loop with its two ways to end a cycle, time.sleep(scan_interval)
\* and the time.sleep(60) of the except clause, while the listener serves
\* /interval commands.

IntervalCommands ==
    {Command("/interval", "none", v) :
        v \in {MIN_SCAN_INTERVAL_SECONDS - 1, MIN_SCAN_INTERVAL_SECONDS,
               MAX_SCAN_INTERVAL_SECONDS}}

SleepReceive == \E c \in IntervalCommands : ListenerPoll(c) /\ UNCHANGED update

SleepInit ==
    /\ price_history = <<>>
    /\ current_mode = "SCAN"
    /\ active_strategy = "None"
    /\ settings = DefaultSettings
    /\ pc = "loop_top"
    /\ now = 0
    /\ clock = 0
    /\ raises_left = MaxRaises
    /\ InitLoopLocals
    /\ InitEvalLocals
    /\ lpc = "poll"
    /\ cmd = NoCmd
    /\ old_lookback = 0
    /\ updates_left = MaxUpdates
    /\ status_reply = None
    /\ InitListenerIdle
    /\ InitGhost

SleepNext ==
    \/ MainStep
    \/ MainRaise \/ MainBackoff
    \/ SleepReceive \/ handle_interval_command

SpecSleep == SleepInit /\ [][SleepNext]_vars

\* ------------------------------------------- the listener and its feed
\* command_polling_thread against getUpdates: Telegram numbers the updates
\* it holds for the bot in ascending order, answers a request with those
\* numbered offset or more, oldest first, and forgets the ones below offset.

TgUpdate(update_id, message) == [update_id |-> update_id, message |-> message]

PollArgs == {<<"abc">>, <<"59">>, <<"60">>, <<"3600">>}

\* what no step of the listener touches besides its own variables
PollFrame ==
    UNCHANGED <<price_history, current_mode, active_strategy, loopVars,
                evalVars, clock, ghostVars, old_lookback, status_reply,
                command_thread_running>>

\* a user sends a command: Telegram queues it under the next update_id
UserSends ==
    /\ updates_left > 0
    /\ updates_left' = updates_left - 1
    /\ \E a \in PollArgs :
          inbox' = Append(inbox,
                     TgUpdate(MaxUpdates - updates_left + 1,
                              Update(TELEGRAM_CHAT_ID, TELEGRAM_CHAT_ID,
                                     "/interval", a)))
    /\ UNCHANGED <<settings, lpc, cmd, update, reply, last_update_id, offset,
                   updates, processed>>
    /\ PollFrame

\* the updates Telegram still holds after a request with this offset
Unconfirmed(queue, from) == SelectSeq(queue, LAMBDA u : u.update_id >= from)

\* get_telegram_updates: params = {"offset": last_update_id + 1, ...}
PollRequest ==
    /\ lpc = "poll"
    /\ updates = <<>>
    /\ offset' = last_update_id + 1
    /\ lpc' = "await"
    /\ UNCHANGED <<settings, cmd, updates_left, update, reply, last_update_id,
                   updates, inbox, processed>>
    /\ PollFrame

BatchFirstId(result) == result[1].update_id

\* last_update_id = updates[-1]["update_id"]
BatchLastId(result) == result[Len(result)].update_id

\* the response arrives: data["result"] holds the oldest unconfirmed updates
PollResponse ==
    /\ lpc = "await"
    /\ \E n \in 0 .. Len(Unconfirmed(inbox, offset)) :
          LET result == SubSeq(Unconfirmed(inbox, offset), 1, n)
          IN  /\ updates' = result
              /\ last_update_id' = IF result # <<>> THEN BatchLastId(result)
                                   ELSE last_update_id
    /\ inbox' = Unconfirmed(inbox, offset)
    /\ lpc' = "poll"
    /\ UNCHANGED <<settings, cmd, updates_left, update, reply, offset,
                   processed>>
    /\ PollFrame

\* requests.RequestException (timeout, HTTP error): return [], whether or
\* not the request reached Telegram
PollFails ==
    /\ lpc = "await"
    /\ inbox' \in {inbox, Unconfirmed(inbox, offset)}
    /\ updates' = <<>>
    /\ lpc' = "poll"
    /\ UNCHANGED <<settings, cmd, updates_left, update, reply, last_update_id,
                   offset, processed>>
    /\ PollFrame

\* for update in updates: the checks, the split of the text, the dispatch
PollDispatch ==
    /\ lpc = "poll"
    /\ updates # <<>>
    /\ LET u == Head(updates).message
       IN  /\ update' = u
           /\ IF is_authorized(u.chat_id, u.user_id) /\ Prologue(u) = "dispatch"
              THEN /\ cmd' = ParsedCommand(u)
                   /\ lpc' = "interval"
                   /\ reply' = "none"
              ELSE /\ reply' = IF is_authorized(u.chat_id, u.user_id)
                               THEN Prologue(u) ELSE "none"
                   /\ UNCHANGED <<cmd, lpc>>
    /\ processed' = Append(processed, Head(updates))
    /\ updates' = Tail(updates)
    /\ UNCHANGED <<settings, updates_left, last_update_id, offset, inbox>>
    /\ PollFrame

PollInit ==
    /\ price_history = <<>>
    /\ current_mode = "SCAN"
    /\ active_strategy = "None"
    /\ settings = DefaultSettings
    /\ pc = "sleep"
    /\ now = 0
    /\ clock = 0
    /\ raises_left = 0
    /\ InitLoopLocals
    /\ InitEvalLocals
    /\ lpc = "poll"
    /\ cmd = NoCmd
    /\ old_lookback = 0
    /\ updates_left = MaxUpdates
    /\ status_reply = None
    /\ InitListenerIdle
    /\ InitGhost

PollNext ==
    \/ UserSends
    \/ PollRequest \/ PollResponse \/ PollFails
    \/ PollDispatch \/ handle_interval_command

SpecPoll == PollInit /\ [][PollNext]_vars

\* C1: called in TRACK with |gap| <= exit_threshold, for every gap and every
\* threshold setting (also exit_threshold >= invalidation_threshold), the
\* call ends in SCAN with the strategy cleared, having sent EXIT and nothing
\* else (no INVALIDATION).
C1_ExitBeforeInvalidation ==
    (pc = "eval_return" /\ prev_mode = "TRACK" /\ Abs(rets.gap) <= exit_thresh)
    => /\ current_mode = "SCAN"
       /\ active_strategy = "None"
       /\ events = <<Event("EXIT", "None")>>

\* a call whose gap also meets the invalidation test of the tracked strategy
C1_Witness ==
    /\ pc = "eval_return"
    /\ prev_mode = "TRACK"
    /\ prev_strategy = "S1"
    /\ Abs(rets.gap) <= exit_thresh
    /\ rets.gap >= invalid_thresh
    /\ exit_thresh >= invalid_thresh
    /\ events = <<Event("EXIT", "None")>>

\* C2: called in SCAN, gap >= entry_threshold gives TRACK(S1) and ENTRY(S1);
\* otherwise gap <= -entry_threshold gives TRACK(S2) and ENTRY(S2); otherwise
\* SCAN, no strategy, no event.  gap is the Decimal the call receives.
C2_ScanEntry ==
    (pc = "eval_return" /\ prev_mode = "SCAN")
    => IF rets.gap >= entry_thresh
       THEN /\ current_mode = "TRACK"
            /\ active_strategy = "S1"
            /\ events = <<Event("ENTRY", "S1")>>
       ELSE IF rets.gap <= -entry_thresh
       THEN /\ current_mode = "TRACK"
            /\ active_strategy = "S2"
            /\ events = <<Event("ENTRY", "S2")>>
       ELSE /\ current_mode = "SCAN"
            /\ active_strategy = "None"
            /\ events = <<>>

\* C3: called in TRACK with |gap| > exit_threshold, TRACK(S1) goes to SCAN
\* with INVALIDATION(S1) iff gap >= invalidation_threshold, TRACK(S2) goes to
\* SCAN with INVALIDATION(S2) iff gap <= -invalidation_threshold, and in
\* every other case mode and strategy stay and no event is sent.
C3_TrackInvalidation ==
    (pc = "eval_return" /\ prev_mode = "TRACK" /\ Abs(rets.gap) > exit_thresh)
    => IF prev_strategy = "S1" /\ rets.gap >= invalid_thresh
       THEN /\ current_mode = "SCAN"
            /\ active_strategy = "None"
            /\ events = <<Event("INVALIDATION", "S1")>>
       ELSE IF prev_strategy = "S2" /\ rets.gap <= -invalid_thresh
       THEN /\ current_mode = "SCAN"
            /\ active_strategy = "None"
            /\ events = <<Event("INVALIDATION", "S2")>>
       ELSE /\ current_mode = "TRACK"
            /\ active_strategy = prev_strategy
            /\ events = <<>>

\* C4: a call sends at most one alert, and it has sent one exactly when it
\* has changed the mode, whatever the order of the thresholds.
C4_OneEventIffModeChange ==
    /\ Len(events) <= 1
    /\ pc = "eval_return" => (Len(events) = 1 <=> current_mode # prev_mode)

\* an entry whose gap already meets the invalidation test: still one alert
C4_Witness ==
    /\ pc = "eval_return"
    /\ prev_mode = "SCAN"
    /\ current_mode = "TRACK"
    /\ events = <<Event("ENTRY", "S1")>>
    /\ invalid_thresh < entry_thresh
    /\ gap_float >= invalid_thresh

\* C5: in every reachable state, also between two writes of
\* evaluate_and_transition where /status can read them, active_strategy is
\* None exactly when current_mode is SCAN.
C5_StrategyIffScan == (active_strategy = "None") <=> (current_mode = "SCAN")

LookbackRunning ==
    lpc \in {"lookback_old", "lookback_write", "lookback_clear",
             "lookback_reply"}

\* C6: once a valid /lookback command has completed, the history holds no
\* point that was stored before the change, under every interleaving with
\* append_price and prune_history.
C6_NoStalePointAfterLookback ==
    ~ LookbackRunning
    => \A i \in DOMAIN price_history :
          price_history[i].timestamp \notin stored_before

\* C7: when the loop is about to resolve its reference, the sample of this
\* cycle, appended after the last history clear, is in the history exactly
\* once.
C7_AppendSurvivesClear ==
    (pc = "resolve_scan" /\ appended_since_clear)
    => Cardinality({i \in DOMAIN price_history :
                       price_history[i].timestamp = now}) = 1

\* C8: the clear of an accepted /lookback command (also one that repeats the
\* current value) leaves the history empty, and get_lookback_price called at
\* any time on what it leaves finds no reference point.
C8_LookbackLeavesEmpty ==
    [][(lpc = "lookback_clear" /\ lpc' = "lookback_reply")
       => /\ price_history' = <<>>
          /\ \A t \in 0 .. MaxClock :
                get_lookback_price(price_history', t,
                                   settings'.lookback_hours) = None]_vars

\* a first /lookback that repeats the current value and cleared stored points
C8_Witness ==
    /\ lpc = "lookback_reply"
    /\ cmd.arg = old_lookback
    /\ updates_left = MaxUpdates - 1
    /\ stored_before # {}
    /\ price_history = <<>>

\* C9: get_lookback_price(now) returns a stored point at minimal distance
\* from now - lookback_hours, and only when that distance is strictly less
\* than 30 minutes; with every point 30 minutes or more away it returns None.
C9_LookbackNearest ==
    pc = "hist_sleep" =>
        LET target == now - settings.lookback_hours * 60
            dist(p) == Abs(p.timestamp - target)
            pts == {price_history[i] : i \in DOMAIN price_history}
        IN  IF \E p \in pts : dist(p) < 30
            THEN /\ price_then # None
                 /\ price_then[1] \in pts
                 /\ \A p \in pts : dist(price_then[1]) <= dist(p)
            ELSE price_then = None

\* a resolved reference with a farther point and a point exactly 30 minutes off
C9_Witness ==
    /\ pc = "hist_sleep"
    /\ price_then # None
    /\ Len(price_history) >= 3
    /\ \E i \in DOMAIN price_history :
          Abs(price_history[i].timestamp - (now - settings.lookback_hours * 60)) = 30
    /\ \E i \in DOMAIN price_history :
          Abs(price_history[i].timestamp - (now - settings.lookback_hours * 60)) = 29

\* C10: prune_history(now) removes exactly the points older than
\* now - (lookback_hours + 30 min), keeps the others in their order (a point
\* at the cutoff stays); with lookback 1 a point of minute 0 survives the
\* prune of minute 90 and not the prune of minute 91.
C10_PruneExact ==
    pc = "hist_resolve" =>
        LET cutoff == now - (settings.lookback_hours * 60 + 30)
            kept == {i \in DOMAIN prune_input :
                        prune_input[i].timestamp >= cutoff}
            rank(i) == Cardinality({j \in kept : j <= i})
        IN  /\ Len(price_history) = Cardinality(kept)
            /\ \A i \in kept : price_history[rank(i)] = prune_input[i]
            /\ (settings.lookback_hours = 1 /\ now = 90
                  /\ \E i \in DOMAIN prune_input : prune_input[i].timestamp = 0)
               => \E i \in DOMAIN price_history : price_history[i].timestamp = 0
            /\ (settings.lookback_hours = 1 /\ now = 91)
               => \A i \in DOMAIN price_history : price_history[i].timestamp # 0

\* minute 91 of the run that sampled every minute from minute 0
C10_Witness ==
    /\ pc = "hist_resolve"
    /\ settings.lookback_hours = 1
    /\ now = 91
    /\ Len(prune_input) = 92
    /\ prune_input[1].timestamp = 0
    /\ Len(price_history) = 91
    /\ price_history[1].timestamp = 1

Stale(pd, t) == ~ is_data_fresh(t, pd.btc_updated_at, pd.eth_updated_at)

\* the cycle ends here: nothing stored, no transition, no alert, normal sleep
CycleSkipped ==
    /\ pc' = "sleep"
    /\ UNCHANGED <<price_history, current_mode, active_strategy>>
    /\ events' = <<>>

\* C11: a cycle whose fetch_prices returns None, or whose sample has the
\* updated-at of either instrument older than the freshness window, leaves
\* the history, current_mode and active_strategy as they were, sends no
\* alert and goes to the sleep of scan_interval seconds (no append, no
\* evaluation, no backoff).
C11_SkippedCycle ==
    [][/\ (pc = "loop_top" /\ pc' = "fetch")
          => UNCHANGED <<price_history, current_mode, active_strategy, events>>
       /\ (pc = "fetch" /\ pc' \in {"fresh_check", "sleep"}
              /\ price_data' = None)
          => CycleSkipped
       /\ (pc = "fresh_check" /\ pc' \in {"append_load", "sleep"}
              /\ Stale(price_data[1], now))
          => CycleSkipped]_vars

\* a cycle skipped in TRACK on a sample whose ETH quote alone is stale
C11_Witness ==
    /\ pc = "sleep"
    /\ price_data # None
    /\ now - price_data[1].eth_updated_at > FRESHNESS_THRESHOLD_MINUTES
    /\ now - price_data[1].btc_updated_at <= FRESHNESS_THRESHOLD_MINUTES
    /\ current_mode = "TRACK"
    /\ price_history # <<>>
    /\ \A i \in DOMAIN price_history : price_history[i].timestamp # now

\* the numbers a command accepts, as the command list states them
ValidInterval(n) == n \in MIN_SCAN_INTERVAL_SECONDS .. MAX_SCAN_INTERVAL_SECONDS
ValidLookback(n) == n \in MIN_LOOKBACK_HOURS .. MAX_LOOKBACK_HOURS
ValidThreshold(x) ==
    x # NaN /\ x > 0 /\ x <= MAX_THRESHOLD_PERCENT * PctUnit

\* a settings command of an accepted sender whose input is invalid: an
\* argument is missing, is not a number, is outside the allowed range, or
\* the threshold type is unknown
InvalidInput(u) ==
    /\ is_authorized(u.chat_id, u.user_id)
    /\ CASE u.command = "/interval" ->
               \/ u.args = <<>>
               \/ int(u.args[1]) = None
               \/ ~ ValidInterval(int(u.args[1])[1])
         [] u.command = "/lookback" ->
               \/ u.args = <<>>
               \/ int(u.args[1]) = None
               \/ ~ ValidLookback(int(u.args[1])[1])
         [] u.command = "/threshold" ->
               \/ Len(u.args) < 2
               \/ float_text(u.args[2]) = None
               \/ ~ ValidThreshold(float_text(u.args[2])[1])
               \/ u.args[1] \notin {"entry", "exit", "invalid", "invalidation"}
         [] OTHER -> FALSE

\* C12: while /interval, /threshold or /lookback handles an invalid input, no
\* Settings field and no point of the history changes, and the handler ends
\* with a reply that refuses the input.
C12_InvalidInputRejected ==
    [][InvalidInput(update')
       => /\ UNCHANGED <<settings, price_history>>
          /\ lpc' = "poll" => reply' \in {"error", "usage"}]_vars

\* the claim read by the sender's identity: the configured destination chat,
\* or a direct message (chat = sender) of that same identity
ClaimAuthorized(u) ==
    \/ u.chat_id = TELEGRAM_CHAT_ID
    \/ (u.chat_id = u.user_id /\ u.user_id = TELEGRAM_CHAT_ID)

\* C13: a step that changes Settings or the history belongs to a command
\* whose sender is authorized; the update of any other sender changes nothing.
C13_OnlyAuthorizedMutates ==
    [][(settings' # settings \/ price_history' # price_history)
       => ClaimAuthorized(update')]_vars

\* C14: in every state of every command sequence, scan_interval is an
\* integer of 60..3600 and lookback_hours an integer of 1..24.
C14_IntervalLookbackRanges ==
    /\ settings.scan_interval \in 60 .. 3600
    /\ settings.lookback_hours \in 1 .. 24

\* the interval accepted at its upper limit and /interval 3601 then refused
C14_Witness ==
    /\ lpc = "poll"
    /\ update.command = "/interval"
    /\ update.args = <<"3601">>
    /\ reply = "error"
    /\ settings.scan_interval = MAX_SCAN_INTERVAL_SECONDS
    /\ settings.lookback_hours \in MIN_LOOKBACK_HOURS .. MAX_LOOKBACK_HOURS

\* C15: in every state, each of the three thresholds is a number strictly
\* greater than 0 and at most 20 percent, for every argument text the
\* parser of /threshold accepts (float(text) raises nothing).
C15_ThresholdRanges ==
    \A f \in {"entry_threshold", "exit_threshold", "invalidation_threshold"} :
        /\ settings[f] # NaN
        /\ settings[f] > 0
        /\ settings[f] <= 20 * PctUnit

\* C16: once main_loop has handled an interrupt and stopped, the run flag of
\* the listener is False (so that the listener leaves its polling loop).
C16_InterruptStopsListener ==
    pc = "stopped" => ~ command_thread_running

\* the run has time left for another cycle
BeforeHorizon == \E d \in ClockSteps : clock + d <= MaxClock

\* C17: in a run without interrupt, from every point of a cycle (after a
\* failed fetch, stale data, missing reference, an evaluation, or an
\* exception on its way to the except clause) the loop starts another cycle.
C17_LoopGoesOn ==
    (pc # "loop_top" /\ BeforeHorizon) ~> (pc = "loop_top")

\* a new cycle after the exception of the run was caught
C17_Witness ==
    /\ pc = "loop_top"
    /\ raises_left < MaxRaises
    /\ clock > 0
    /\ price_history # <<>>

\* C18: a call in which send_alert failed has still made the transition of
\* the event (mode and strategy written in that call) and has attempted one
\* alert only; and a call sends an alert only when it makes a transition
\* itself, so an alert that was lost is not sent again by a later call.
C18_AlertFailureKeepsTransition ==
    pc = "eval_return" =>
        /\ send_failed =>
              /\ Len(events) = 1
              /\ current_mode # prev_mode
              /\ events[1].kind = "ENTRY"
                    => /\ current_mode = "TRACK"
                       /\ active_strategy = events[1].strategy
              /\ events[1].kind \in {"EXIT", "INVALIDATION"}
                    => current_mode = "SCAN" /\ active_strategy = "None"
        /\ events # <<>> => current_mode # prev_mode

\* an exit whose alert was lost: the call has returned to SCAN all the same
C18_Witness ==
    /\ pc = "eval_return"
    /\ send_failed
    /\ events = <<Event("EXIT", "None")>>
    /\ prev_mode = "TRACK"
    /\ current_mode = "SCAN"
    /\ active_strategy = "None"

\* the values of a cycle that are read from Settings, where they are held
CutoffRead == pc \in {"prune_load", "prune_store"}
TargetRead == pc = "resolve_scan"
EntryRead ==
    pc \in {"eval_read_exit", "eval_read_invalid", "eval_mode",
            "entry_s1_strategy", "entry_s1_mode", "entry_s1_alert",
            "entry_s2_strategy", "entry_s2_mode", "entry_s2_alert"}
ExitInvalidRead ==
    pc \in {"eval_mode", "exit_alert", "exit_mode", "exit_strategy",
            "inval_s1_alert", "inval_s1_mode", "inval_s1_strategy",
            "inval_s2_alert", "inval_s2_mode", "inval_s2_strategy"}

\* C19: in a cycle that began with the listener idle and during which no
\* update arrived, prune_history, get_lookback_price and the threshold tests
\* use the values Settings holds, and when the cycle resolves its reference
\* the history holds no point stored before the last completed clear.
C19_CompletedMutationInEffect ==
    cycle_clean =>
        /\ CutoffRead
              => prune_cutoff = PruneCutoff(now, settings.lookback_hours)
        /\ TargetRead
              => target_time = TargetTime(now, settings.lookback_hours)
        /\ EntryRead => entry_thresh = settings.entry_threshold
        /\ ExitInvalidRead
              => /\ exit_thresh = settings.exit_threshold
                 /\ invalid_thresh = settings.invalidation_threshold
        /\ pc = "resolve_scan"
              => \A i \in DOMAIN price_history :
                    price_history[i].timestamp \notin stored_before

\* C20: no point of the history has a zero price, and compute_returns is
\* never called with a reference point whose BTC or ETH price is zero.
C20_NoZeroReference ==
    /\ \A i \in DOMAIN price_history :
          price_history[i].btc # 0 /\ price_history[i].eth # 0
    /\ pc = "compute" => ~ ZeroReference(price_then[1])

\* r is the exact quotient num / den rounded to a nearest whole unit
NearestUnit(r, num, den) == 2 * Abs(r * den - num) <= Abs(den)

\* C21: compute_returns(p, p, p, p) is (0, 0, 0) for every nonzero p; each
\* returned change is (now - ref) / ref * 100 of its series (to the unit of
\* the Decimal result) and the returned gap is the second series' change
\* (ETH) minus the first series' change (BTC).
C21_ReturnsFormula ==
    pc = "ret_done" =>
        LET btc_now  == price_data[1].btc_price
            eth_now  == price_data[1].eth_price
            btc_prev == price_then[1].btc
            eth_prev == price_then[1].eth
        IN  /\ NearestUnit(rets.btc_ret,
                           (btc_now - btc_prev) * 100 * PctUnit, btc_prev)
            /\ NearestUnit(rets.eth_ret,
                           (eth_now - eth_prev) * 100 * PctUnit, eth_prev)
            /\ rets.gap = rets.eth_ret - rets.btc_ret
            /\ (btc_now = btc_prev /\ eth_now = eth_prev /\ btc_now = eth_now)
               => rets = [btc_ret |-> 0, eth_ret |-> 0, gap |-> 0]

\* ETH gained against a negative reference while BTC lost: a gap that is
\* neither zero nor symmetric
C21_Witness ==
    /\ pc = "ret_done"
    /\ price_then[1].btc = BasePrice
    /\ price_data[1].btc_price = 3
    /\ price_then[1].eth = -BasePrice
    /\ price_data[1].eth_price = -BasePrice
    /\ rets.btc_ret < 0
    /\ rets.eth_ret = 0
    /\ rets.gap > 0

\* C22: the value the state machine compares against the thresholds is the
\* exact Decimal gap it was called with, so the branch taken (entry, exit,
\* invalidation, none) is the branch of the exact gap.
C22_ExactGapCompared ==
    pc = "eval_mode" =>
        /\ gap_float = rets.gap
        /\ current_mode = "SCAN" =>
              ScanDecision(gap_float, entry_thresh)
                  = ScanDecision(rets.gap, entry_thresh)
        /\ current_mode = "TRACK" =>
              TrackDecision(gap_float, active_strategy, exit_thresh,
                            invalid_thresh)
                  = TrackDecision(rets.gap, active_strategy, exit_thresh,
                                  invalid_thresh)

\* the lookback value the running get_lookback_price has read
ResolveReadsNew ==
    /\ pc = "resolve_scan"
    /\ target_time = TargetTime(now, settings.lookback_hours)

\* C23: within one cycle prune_history and get_lookback_price read the same
\* lookback_hours, and when get_lookback_price has read the value a running
\* /lookback command has just written, the history it is about to scan
\* holds no point stored before that change.
C23_LookbackAndHistoryAgree ==
    /\ pc = "resolve_scan"
          => target_time - prune_cutoff = HISTORY_BUFFER_MINUTES
    /\ (ResolveReadsNew /\ lpc = "lookback_clear"
          /\ old_lookback # settings.lookback_hours)
          => \A i \in DOMAIN price_history :
                price_history[i].timestamp \notin stored_before

\* C24: of the stored points at the least distance from the target (less
\* than 30 minutes), get_lookback_price returns the one that comes first in
\* the history; the result is fixed by the history, now and lookback_hours.
C24_FirstOfEquallyClose ==
    pc = "hist_sleep" =>
        LET target == now - settings.lookback_hours * 60
            dist(i) == Abs(price_history[i].timestamp - target)
            nearest == {i \in DOMAIN price_history :
                          /\ dist(i) < 30
                          /\ \A k \in DOMAIN price_history : dist(i) <= dist(k)}
        IN  IF nearest = {} THEN price_then = None
            ELSE LET first == CHOOSE i \in nearest : \A k \in nearest : i <= k
                 IN  price_then = Some(price_history[first])

\* two points one minute before and one minute after the target, the
\* earlier one returned
C24_Witness ==
    /\ pc = "hist_sleep"
    /\ \E i, k \in DOMAIN price_history :
          /\ i < k
          /\ price_history[i].timestamp
                = now - settings.lookback_hours * 60 - 1
          /\ price_history[k].timestamp
                = now - settings.lookback_hours * 60 + 1
          /\ price_then = Some(price_history[i])
    /\ \A i \in DOMAIN price_history :
          price_history[i].timestamp # now - settings.lookback_hours * 60

\* no stored point lies within the tolerance of the target of this cycle
NoReference ==
    \A i \in DOMAIN price_history :
        Abs(price_history[i].timestamp - target_time)
            >= LOOKBACK_TOLERANCE_MINUTES

\* C25: when the loop resolves its reference on a fresh sample and no stored
\* point is within the tolerance, the cycle goes to its sleep without
\* evaluating the state machine: current_mode and active_strategy are as
\* they were, no event is sent, and the sample of this cycle is the last
\* point of the history.
C25_NoReferenceNoEvaluation ==
    [][(pc = "resolve_scan" /\ pc' \notin {"resolve_scan", "stopped"}
           /\ NoReference)
       => /\ pc' = "sleep"
          /\ UNCHANGED <<current_mode, active_strategy, price_history>>
          /\ events' = <<>>
          /\ price_then' = None
          /\ price_history' # <<>>
          /\ price_history'[Len(price_history')]
                = PricePoint(now, price_data[1].btc_price,
                             price_data[1].eth_price)]_vars

\* a cycle in TRACK whose nearest points are both 30 minutes off the target
C25_Witness ==
    /\ pc = "sleep"
    /\ price_data # None
    /\ price_then = None
    /\ current_mode = "TRACK"
    /\ active_strategy = "S1"
    /\ Len(price_history) >= 3
    /\ price_history[Len(price_history)].timestamp = now
    /\ \E i \in DOMAIN price_history :
          price_history[i].timestamp = now - 30

\* C26: in every state the history is ordered by non-decreasing timestamp,
\* whatever the interleaving of the appends and prunes of the sampling loop
\* with the clears of the listener (the clock read at the start of a cycle
\* never goes backwards).
C26_HistoryOrdered ==
    \A i, k \in DOMAIN price_history :
        i < k => price_history[i].timestamp <= price_history[k].timestamp

\* three points in order after a completed /lookback, the first of them
\* stored before that command and written back by a running prune_history
C26_Witness ==
    /\ pc = "resolve_lookback"
    /\ lpc = "poll"
    /\ Len(price_history) >= 3
    /\ price_history[1].timestamp \in stored_before
    /\ price_history[Len(price_history)].timestamp = now
    /\ price_history[Len(price_history)].timestamp \notin stored_before

RECURSIVE IntervalAfter(_, _)
IntervalAfter(seq, start) ==
    IF seq = <<>> THEN start
    ELSE LET a == seq[1].message.args
             n == IF a = <<>> THEN None ELSE int(a[1])
         IN  IntervalAfter(Tail(seq),
                 IF n # None /\ ValidInterval(n[1]) THEN n[1] ELSE start)

\* C28: last_update_id never decreases; a request asks for no update at or
\* below last_update_id and none that was already processed; the updates
\* processed are distinct and in the ascending order in which Telegram
\* returns them; and once the listener is idle the interval is what the
\* processed commands give when applied in that order.
C28_UpdatesOnceInOrder ==
    [][/\ last_update_id' >= last_update_id
       /\ lpc' = "await"
             => /\ offset' > last_update_id'
                /\ \A j \in DOMAIN processed' :
                      processed'[j].update_id < offset'
       /\ \A i \in DOMAIN updates', j \in DOMAIN processed' :
             processed'[j].update_id < updates'[i].update_id
       /\ \A i, j \in DOMAIN processed' :
             i < j => processed'[i].update_id < processed'[j].update_id
       /\ lpc' \in {"poll", "await"}
             => settings'.scan_interval
                   = IntervalAfter(processed', SCAN_INTERVAL_SECONDS)]_vars

\* two commands delivered in one response and applied in turn, the second
\* one deciding the interval
C28_Witness ==
    /\ lpc = "poll"
    /\ updates = <<>>
    /\ Len(processed) = 2
    /\ last_update_id = 2
    /\ inbox # <<>>
    /\ processed[1].message.args = <<"3600">>
    /\ processed[2].message.args = <<"60">>
    /\ settings.scan_interval = 60

====
